---- MODULE Spec2Model ----
(***************************************************************************)
(* State-machine model of the scroll-animation and typing-effect engine of *)
(* src/frontend/src/App.tsx: the hooks useTypingEffect and                 *)
(* useScrollAnimation, the AnimatedProgressBar and LanguageCircle          *)
(* components and the Navbar.                                              *)
(*                                                                         *)
(* React is modelled by what it does to these hooks: a state setter        *)
(* changes the hook's state and, when the state really changed, commits a  *)
(* re-render whose passive effect (cleanup of the previous effect, then    *)
(* the effect body) runs as a later step, before time passes and before    *)
(* the next commit.  Timers (setTimeout) carry the delay that remains and  *)
(* the values their callback closed over.  Strings are TLA+ strings;       *)
(* indices into the phrase list are 0-based as in the source.              *)
(***************************************************************************)
EXTENDS Integers, Sequences, FiniteSets, TLC

\* ------------------------------------------------------------------ bounds
\* Longest phrase list drawn for the typing engine.
MaxPhrases == 2
\* The clock `now` and the cycle counter stop counting at these values.
MaxTime == 140
MaxCycles == 3
\* Most entries an observer holds before its callback is delivered.
MaxEntries == 2

\* ------------------------------------------------------- program constants
DefaultTypingSpeed == 80
DefaultDeletingSpeed == 50
DefaultPauseDuration == 1800
\* AnimatedProgressBar's delay before the width is set.
ProgressDelay == 200
\* The value props of the five AnimatedProgressBar instances.
BarTargets == {85, 90, 92, 75, 78}
\* The value props of the three LanguageCircle instances (languagesData).
CircleTargets == {100, 90, 50}
\* LanguageCircle's circumference, 2 * Math.PI * 45 = 282.74..., in
\* hundredths of a user unit.
Circumference == 28274

\* The phrases HeroSection passes to useTypingEffect.
HeroPhrases ==
    << "Digital Marketing Executive", "SEO Specialist",
       "GMB Optimization Expert", "Data Analytics Enthusiast" >>

\* NAV_LINKS.map(({ id }) => id), in list order.
NavIds ==
    << "home", "about", "skills", "education", "experience", "services",
       "projects", "volunteer", "languages", "contact" >>
\* handleScroll: scrollPos = window.scrollY + 80
Lookahead == 80
\* handleScroll: setScrolled(window.scrollY > 50)
ScrolledThreshold == 50

\* ------------------------------------------------------------- inputs
\* Phrases the bounded phrase lists are made of (the empty phrase included).
Words == {"", "A", "BB", "AB"}

RECURSIVE ListsOfLength(_)
ListsOfLength(n) ==
    IF n = 0 THEN {<< >>}
    ELSE {Append(l, w) : l \in ListsOfLength(n - 1), w \in Words}

\* Every phrase list of length 1..MaxPhrases over Words, and the program's own.
PhraseLists ==
    UNION {ListsOfLength(n) : n \in 1..MaxPhrases} \cup {HeroPhrases}

\* <<typingSpeed, deletingSpeed, pauseDuration>>: the defaults and the
\* timings of the spec's worked scenario.
ScenarioSpeeds == <<10, 5, 100>>
SpeedTriples ==
    { <<DefaultTypingSpeed, DefaultDeletingSpeed, DefaultPauseDuration>>,
      ScenarioSpeeds }

\* ------------------------------------------------------------- state
\* The visibility trackers of the model: the one inside an AnimatedProgressBar
\* and the one inside a LanguageCircle.
Trackers == {"bar", "circle"}

VARIABLES
    \* useTypingEffect: arguments
    phrases, typingSpeed, deletingSpeed, pauseDuration,
    \* useTypingEffect: useState
    displayText, phraseIndex, isDeleting,
    \* useTypingEffect: the pending setTimeout and the component's lifecycle
    timeout, typingMounted, typingEffectPending,
    \* the host's timer table: how many timers set by the typing engine are
    \* neither fired nor cleared
    liveTimers,
    \* useScrollAnimation, one per tracker: ref.current is set, useState
    \* isVisible, the observer observes the region, its queued entries
    refCurrent, isVisible, observing, entries,
    \* the host: the region intersects the viewport by the threshold, and what
    \* the observer last reported of it
    intersecting, lastReported,
    \* lifecycle of the component owning each tracker, and whether one of
    \* its handlers threw
    trkMounted, trkEffectPending, trkError,
    \* AnimatedProgressBar: prop value, useState width, its setTimeout
    barValue, width, barTimer, barEffectPending,
    \* LanguageCircle: prop value
    circleValue,
    \* the document and the window: which sections have an element and where,
    \* the offsets the user scrolls to; window.scrollY and the destination of
    \* a smooth scroll under way
    page, scrollY, scrollTarget,
    \* Navbar: useState scrolled, mobileOpen, activeSection; its lifecycle and
    \* whether its scroll listener is registered
    scrolled, mobileOpen, activeSection, navMounted, navListening,
    navEffectPending,
    \* observers of the Navbar (not program state): a scroll event has
    \* happened since construction, handleScroll has run, the section last
    \* navigated to, a handler threw
    scrollSeen, scrollHandled, lastNav, navError,
    \* observers of the run (not program state): the injected clock, the
    \* number of Deleting -> Typing returns, the time the display has been the
    \* full phrase, the time since the current phrase was started, the time
    \* the mounted progress bar has been visible (counted up to ProgressDelay)
    now, cycles, fullFor, sinceCycle, visibleFor

typingArgs == <<phrases, typingSpeed, deletingSpeed, pauseDuration>>
typingState == <<displayText, phraseIndex, isDeleting>>
typingVars ==
    <<typingArgs, typingState, timeout, typingMounted, typingEffectPending,
      liveTimers>>
observerVars == <<observing, entries, lastReported>>
trackerVars ==
    <<refCurrent, isVisible, observerVars, intersecting, trkMounted,
      trkEffectPending, trkError>>
barVars == <<barValue, width, barTimer, barEffectPending, circleValue>>
clockVars == <<now, cycles, fullFor, sinceCycle, visibleFor>>
windowVars == <<page, scrollY, scrollTarget>>
navState == <<scrolled, mobileOpen, activeSection>>
navGhosts == <<scrollSeen, scrollHandled, lastNav, navError>>
navVars ==
    <<windowVars, navState, navMounted, navListening, navEffectPending,
      navGhosts>>
vars == <<typingVars, trackerVars, barVars, clockVars, navVars>>

\* ------------------------------------------------------------- helpers
Min(a, b) == IF a < b THEN a ELSE b
Max(a, b) == IF a > b THEN a ELSE b

\* String.prototype.slice(0, end): a negative end counts from the end of the
\* string, an end beyond the string stops at its length.
Slice(s, end) ==
    LET n == Len(s)
        e == IF end < 0 THEN Max(n + end, 0) ELSE Min(end, n)
    IN SubSeq(s, 1, e)

IsPrefix(d, p) == Len(d) <= Len(p) /\ SubSeq(p, 1, Len(d)) = d

\* phrases[phraseIndex], 0-based.
CurrentPhrase == phrases[phraseIndex + 1]

\* setTimeout handles.  A step timer's callback closes over isDeleting,
\* currentPhrase and displayText.length of the render that scheduled it.
NoTimer == [kind |-> "none", remaining |-> 0, del |-> FALSE, phrase |-> "", len |-> 0]
\* Mutant of PauseTimer: the pause is entered without a timer.
PauseTimerDropped(delay) == NoTimer

PauseTimer(delay) ==
    [kind |-> "pause", remaining |-> delay, del |-> FALSE, phrase |-> "", len |-> 0]
StepTimer(delay, del, phrase, len) ==
    [kind |-> "step", remaining |-> delay, del |-> del, phrase |-> phrase, len |-> len]

\* The display is the full current phrase and the engine is not deleting.
Full == ~isDeleting /\ displayText = CurrentPhrase

\* Mutant of ClearTimeout: the cleanup leaves the timer pending.
ClearTimeoutLeak(t) == t

\* clearTimeout(t): the timer is no longer pending.
ClearTimeout(t) == NoTimer

\* Mutant of NextIndex: the index advances by two.
NextIndexSkip(prev, n) == (prev + 2) % n

\* (prev + 1) % phrases.length
NextIndex(prev, n) == (prev + 1) % n

\* Mutant of TypedText: typing slices to the current length, so the text
\* never grows.
TypedTextStall(t) ==
    IF t.del THEN Slice(t.phrase, t.len - 1) ELSE Slice(t.phrase, t.len)

\* Mutant of TypedText: deleting removes two characters at a time.
TypedTextSkip(t) ==
    IF t.del THEN Slice(t.phrase, Max(t.len - 2, 0)) ELSE Slice(t.phrase, t.len + 1)

\* The text a step timer's callback hands to setDisplayText.
TypedText(t) ==
    IF t.del THEN Slice(t.phrase, t.len - 1) ELSE Slice(t.phrase, t.len + 1)

\* Mutant of StepDelay: the two speeds are swapped.
StepDelaySwapped(del) == IF del THEN typingSpeed ELSE deletingSpeed

\* The delay of a step timer.
StepDelay(del) == IF del THEN deletingSpeed ELSE typingSpeed

\* Mutant of PauseDelay: the pause timer is given the typing speed.
PauseDelayShort == typingSpeed

\* The delay of the timer that ends the pause.
PauseDelay == pauseDuration

\* Mutant of AtFullPhrase: the pause starts one character early.
AtFullEarly == ~isDeleting /\ Len(displayText) >= Len(CurrentPhrase) - 1

\* The effect's first branch: !isDeleting && displayText === currentPhrase.
AtFullPhrase == ~isDeleting /\ displayText = CurrentPhrase

\* Mutant of AtEmpty: the next phrase starts with one character left.
AtEmptyEarly == isDeleting /\ Len(displayText) <= 1

\* The effect's second branch: isDeleting && displayText === "".
AtEmpty == isDeleting /\ displayText = ""

\* ---------------------------------------------------------- run observers
\* What an action that lets dt time units pass does to the observers.  A
\* cycle is counted when the engine returns from Deleting to Typing.
Observe(dt) ==
    /\ now' = Min(now + dt, MaxTime)
    /\ cycles' = IF isDeleting /\ ~isDeleting' THEN Min(cycles + 1, MaxCycles) ELSE cycles
    /\ fullFor' = IF Full' /\ Full /\ typingMounted THEN fullFor + dt ELSE 0
    /\ sinceCycle' = IF isDeleting /\ ~isDeleting' THEN 0
                     ELSE IF typingMounted THEN sinceCycle + dt ELSE sinceCycle
    /\ visibleFor' = IF isVisible["bar"] /\ isVisible'["bar"] /\ trkMounted'["bar"]
                     THEN Min(visibleFor + dt, ProgressDelay)
                     ELSE 0

\* ------------------------------------------------------ useTypingEffect
\* The number of live timers clearTimeout(t) takes out of the timer table.
Released(t) == IF t # NoTimer /\ ClearTimeout(t) = NoTimer THEN 1 ELSE 0

\* The number of timers a run of the effect has put into the timer table.
Scheduled(t) == IF t # NoTimer THEN 1 ELSE 0

\* The passive effect of useTypingEffect after a commit: the previous
\* effect's cleanup, then the effect body.
TypingRunEffect ==
    /\ typingMounted
    /\ typingEffectPending
    /\ IF AtFullPhrase
       THEN /\ timeout' = PauseTimer(PauseDelay)
            /\ typingEffectPending' = FALSE
            /\ UNCHANGED typingState
       ELSE IF AtEmpty
       THEN /\ isDeleting' = FALSE
            /\ phraseIndex' = NextIndex(phraseIndex, Len(phrases))
            /\ timeout' = ClearTimeout(timeout)
            /\ typingEffectPending' = TRUE
            /\ UNCHANGED displayText
       ELSE /\ timeout' = StepTimer(StepDelay(isDeleting), isDeleting,
                                    CurrentPhrase, Len(displayText))
            /\ typingEffectPending' = FALSE
            /\ UNCHANGED typingState
    /\ liveTimers' =
         liveTimers - Released(timeout)
           + (IF AtFullPhrase \/ ~AtEmpty THEN Scheduled(timeout') ELSE 0)
    /\ UNCHANGED <<typingArgs, typingMounted, trackerVars, barVars>>
    /\ UNCHANGED navVars
    /\ Observe(0)

\* Mutant of TypingTimerFire: the timer is an interval, re-armed when it
\* fires.
TypingTimerFireRepeating ==
    /\ timeout.kind # "none"
    /\ timeout.remaining = 0
    /\ IF timeout.kind = "pause"
       THEN isDeleting' = TRUE /\ UNCHANGED <<displayText, phraseIndex>>
       ELSE displayText' = TypedText(timeout) /\ UNCHANGED <<isDeleting, phraseIndex>>
    /\ timeout' = [timeout EXCEPT !.remaining = typingSpeed]
    /\ liveTimers' = liveTimers
    /\ typingEffectPending' = (typingMounted /\ typingState' # typingState)
    /\ UNCHANGED <<typingArgs, typingMounted, trackerVars, barVars>>
    /\ UNCHANGED navVars
    /\ Observe(0)

\* The pending timer's delay has elapsed: its callback runs.  A setter that
\* changes the state commits a re-render, whose effect is then pending.
TypingTimerFire ==
    /\ timeout.kind # "none"
    /\ timeout.remaining = 0
    /\ IF timeout.kind = "pause"
       THEN isDeleting' = TRUE /\ UNCHANGED <<displayText, phraseIndex>>
       ELSE displayText' = TypedText(timeout) /\ UNCHANGED <<isDeleting, phraseIndex>>
    /\ timeout' = NoTimer
    /\ liveTimers' = liveTimers - 1
    /\ typingEffectPending' = (typingMounted /\ typingState' # typingState)
    /\ UNCHANGED <<typingArgs, typingMounted, trackerVars, barVars>>
    /\ UNCHANGED navVars
    /\ Observe(0)

\* The view owning the typing engine is torn down: the effect's cleanup runs.
\* React flushes a pending passive effect before it commits the removal.
TypingUnmount ==
    /\ typingMounted
    /\ ~typingEffectPending
    /\ typingMounted' = FALSE
    /\ timeout' = ClearTimeout(timeout)
    /\ liveTimers' = liveTimers - Released(timeout)
    /\ UNCHANGED <<typingArgs, typingState, typingEffectPending, trackerVars, barVars>>
    /\ UNCHANGED navVars
    /\ Observe(0)


\* ------------------------------------------------------ useScrollAnimation
\* What an observer reports of a region: "none" before its first report.
Report(b) == IF b THEN "in" ELSE "out"

\* if (ref.current) observer.observe(ref.current): whether observe is
\* called.  observer.observe(null) throws a TypeError.
ObservesOnStart(t) == refCurrent[t]

\* observer.disconnect(): nothing is observed, queued entries are dropped.
DisconnectKeeps(t) ==
    /\ entries' = [entries EXCEPT ![t] = << >>]
    /\ UNCHANGED <<observing, lastReported>>

Disconnect(t) ==
    /\ observing' = [observing EXCEPT ![t] = FALSE]
    /\ entries' = [entries EXCEPT ![t] = << >>]
    /\ lastReported' = [lastReported EXCEPT ![t] = "none"]

\* The passive effect of useScrollAnimation, run once after the mount
\* (its dependency, threshold, never changes): create the observer and
\* observe the region if the ref holds one.
TrackerRunEffect(t) ==
    /\ trkMounted[t]
    /\ trkEffectPending[t]
    /\ trkEffectPending' = [trkEffectPending EXCEPT ![t] = FALSE]
    /\ observing' = [observing EXCEPT ![t] = ObservesOnStart(t) /\ refCurrent[t]]
    /\ trkError' = [trkError EXCEPT ![t] = @ \/ (ObservesOnStart(t) /\ ~refCurrent[t])]
    /\ UNCHANGED <<refCurrent, isVisible, entries, lastReported, intersecting,
                   trkMounted, typingVars, barVars>>
    /\ UNCHANGED navVars
    /\ Observe(0)

\* The host attaches the region to a tracker whose ref held none; the region
\* may or may not be in view.
AttachRegion(t) ==
    /\ trkMounted[t]
    /\ ~refCurrent[t]
    /\ refCurrent' = [refCurrent EXCEPT ![t] = TRUE]
    /\ \E b \in BOOLEAN : intersecting' = [intersecting EXCEPT ![t] = b]
    /\ UNCHANGED <<isVisible, observerVars, trkMounted, trkEffectPending,
                   trkError, typingVars, barVars>>
    /\ UNCHANGED navVars
    /\ Observe(0)

\* A scroll moves the region into or out of view.
Scroll(t) ==
    /\ refCurrent[t]
    /\ intersecting' = [intersecting EXCEPT ![t] = ~intersecting[t]]
    /\ UNCHANGED <<refCurrent, isVisible, observerVars, trkMounted,
                   trkEffectPending, trkError, typingVars, barVars>>
    /\ UNCHANGED navVars
    /\ Observe(0)

\* The host's intersection update: an observed region whose intersection
\* differs from the last report (or was never reported) queues an entry.
Frame(t) ==
    /\ observing[t]
    /\ lastReported[t] # Report(intersecting[t])
    /\ Len(entries[t]) < MaxEntries
    /\ entries' = [entries EXCEPT ![t] = Append(@, intersecting[t])]
    /\ lastReported' = [lastReported EXCEPT ![t] = Report(intersecting[t])]
    /\ UNCHANGED <<refCurrent, isVisible, observing, intersecting, trkMounted,
                   trkEffectPending, trkError, typingVars, barVars>>
    /\ UNCHANGED navVars
    /\ Observe(0)

\* Mutant of ObserverCallback: the flag follows every entry and the observer
\* is never disconnected.
ObserverCallbackLive(t) ==
    /\ entries[t] # << >>
    /\ isVisible' = [isVisible EXCEPT ![t] = Head(entries[t])]
    /\ entries' = [entries EXCEPT ![t] = << >>]
    /\ barEffectPending' =
           IF t = "bar" /\ trkMounted[t] /\ isVisible'[t] # isVisible[t]
           THEN TRUE ELSE barEffectPending
    /\ UNCHANGED <<observing, lastReported, refCurrent, intersecting, trkMounted,
                   trkEffectPending, trkError, typingVars, barValue, width,
                   barTimer, circleValue>>
    /\ UNCHANGED navVars
    /\ Observe(0)

\* Mutant of ObserverCallback: one flag shared by every tracker.
ObserverCallbackShared(t) ==
    /\ entries[t] # << >>
    /\ IF Head(entries[t])
       THEN /\ isVisible' = [u \in Trackers |-> TRUE]
            /\ Disconnect(t)
            /\ barEffectPending' =
                   IF trkMounted["bar"] /\ ~isVisible["bar"]
                   THEN TRUE ELSE barEffectPending
       ELSE /\ entries' = [entries EXCEPT ![t] = << >>]
            /\ UNCHANGED <<isVisible, observing, lastReported, barEffectPending>>
    /\ UNCHANGED <<refCurrent, intersecting, trkMounted, trkEffectPending,
                   trkError, typingVars, barValue, width, barTimer, circleValue>>
    /\ UNCHANGED navVars
    /\ Observe(0)

\* The observer's callback, ([entry]) => {...}: it reads the first queued
\* entry.  Setting isVisible re-renders the component, and the progress
\* bar's effect depends on isVisible.
ObserverCallback(t) ==
    /\ entries[t] # << >>
    /\ IF Head(entries[t])
       THEN /\ isVisible' = [isVisible EXCEPT ![t] = TRUE]
            /\ Disconnect(t)
            /\ barEffectPending' =
                   IF t = "bar" /\ trkMounted[t] /\ ~isVisible[t]
                   THEN TRUE ELSE barEffectPending
       ELSE /\ entries' = [entries EXCEPT ![t] = << >>]
            /\ UNCHANGED <<isVisible, observing, lastReported, barEffectPending>>
    /\ UNCHANGED <<refCurrent, intersecting, trkMounted, trkEffectPending,
                   trkError, typingVars, barValue, width, barTimer, circleValue>>
    /\ UNCHANGED navVars
    /\ Observe(0)

\* ----------------------------------------------------- AnimatedProgressBar
\* The passive effect of AnimatedProgressBar after isVisible changed:
\* if (isVisible) setTimeout(() => setWidth(value), 200).
WidthTimer(delay) ==
    [kind |-> "width", remaining |-> delay, del |-> FALSE, phrase |-> "", len |-> 0]

BarRunEffect ==
    /\ trkMounted["bar"]
    /\ barEffectPending
    /\ barEffectPending' = FALSE
    /\ barTimer' = IF isVisible["bar"] THEN WidthTimer(ProgressDelay) ELSE barTimer
    /\ UNCHANGED <<barValue, width, circleValue, typingVars, trackerVars>>
    /\ UNCHANGED navVars
    /\ Observe(0)

\* The 200ms timer's callback: setWidth(value).
BarTimerFire ==
    /\ barTimer.kind # "none"
    /\ barTimer.remaining = 0
    /\ width' = barValue
    /\ barTimer' = NoTimer
    /\ UNCHANGED <<barValue, barEffectPending, circleValue, typingVars, trackerVars>>
    /\ UNCHANGED navVars
    /\ Observe(0)

\* The component owning tracker t is torn down: the cleanups of its effects
\* run (observer.disconnect(), and the progress bar's clearTimeout).
TrackerUnmount(t) ==
    /\ trkMounted[t]
    /\ ~trkEffectPending[t]
    /\ t = "bar" => ~barEffectPending
    /\ trkMounted' = [trkMounted EXCEPT ![t] = FALSE]
    /\ Disconnect(t)
    /\ barTimer' = IF t = "bar" THEN ClearTimeout(barTimer) ELSE barTimer
    /\ UNCHANGED <<refCurrent, isVisible, intersecting, trkEffectPending,
                   trkError, barValue, width, barEffectPending, circleValue,
                   typingVars>>
    /\ UNCHANGED navVars
    /\ Observe(0)

\* ------------------------------------------------------------------ Navbar
SectionIndex == 1..Len(NavIds)

\* Documents: the sections of NavIds that have an element, and each
\* element's offsetTop. Four sections 800 apart, the later ones not rendered.
InstanceLayout ==
    [elements |-> 1..4,
     offsetTop |-> <<0, 800, 1600, 2400, 3200, 4000, 4800, 5600, 6400, 7200>>]

\* Every section rendered.
FullLayout == [InstanceLayout EXCEPT !.elements = SectionIndex]

\* Some sections have no element, the first among them.
SparseLayout == [InstanceLayout EXCEPT !.elements = {2, 4}]

\* Elements laid out in another order than the list's.
UnorderedLayout ==
    [InstanceLayout EXCEPT
       !.offsetTop = <<0, 1600, 800, 2400, 3200, 4000, 4800, 5600, 6400, 7200>>]

Layouts == {InstanceLayout, FullLayout, SparseLayout, UnorderedLayout}

\* Values of window.scrollY the user scrolls to: around the scrolled
\* threshold, and around section tops less the lookahead.
ScrollOffsets == {0, 50, 51, 720, 850, 1520}

\* setScrolled(window.scrollY > 50)
ScrolledAfterInclusive(y) == y >= ScrolledThreshold

ScrolledAfter(y) == y > ScrolledThreshold

\* el && el.offsetTop <= scrollPos, el = document.getElementById(sectionIds[i])
Passed(i, scrollPos) == i \in page.elements /\ page.offsetTop[i] <= scrollPos

\* A scan of the list first-to-last that stops at its first match.
RECURSIVE ScanUp(_, _, _)
ScanUp(i, scrollPos, cur) ==
    IF i > Len(NavIds) THEN cur
    ELSE IF Passed(i, scrollPos) THEN NavIds[i]
    ELSE ScanUp(i + 1, scrollPos, cur)

\* for (let i = sectionIds.length - 1; i >= 0; i--) { if (...) { ...; break } }
\* from position i down: the id passed to setActiveSection, or the current
\* state when no section matches.
RECURSIVE ScanDown(_, _, _)
ScanDown(i, scrollPos, cur) ==
    IF i = 0 THEN cur
    ELSE IF Passed(i, scrollPos) THEN NavIds[i]
    ELSE ScanDown(i - 1, scrollPos, cur)

ActiveAfterFirstMatch(y, cur) == ScanUp(1, y + Lookahead, cur)

\* Mutant of ActiveAfter: with no match the first section becomes active.
ActiveAfterReset(y, cur) == ScanDown(Len(NavIds), y + Lookahead, NavIds[1])

\* The active section handleScroll leaves at window.scrollY = y.
ActiveAfter(y, cur) == ScanDown(Len(NavIds), y + Lookahead, cur)

\* handleScroll, run with window.scrollY = y.
HandleScroll(y) ==
    /\ scrolled' = ScrolledAfter(y)
    /\ activeSection' = ActiveAfter(y, activeSection)

\* The window moves to offset y and dispatches a scroll event: the
\* registered listener runs, a removed or not yet registered one does not.
ScrollEvent(y) ==
    /\ scrollY' = y
    /\ IF navListening THEN HandleScroll(y)
                       ELSE UNCHANGED <<scrolled, activeSection>>
    /\ scrollSeen' = TRUE
    /\ scrollHandled' = (scrollHandled \/ navListening)

\* useEffect(() => { ...; window.addEventListener("scroll", handleScroll) }, [])
NavRunEffect ==
    /\ navMounted /\ navEffectPending
    /\ navListening' = TRUE
    /\ navEffectPending' = FALSE
    /\ UNCHANGED <<windowVars, navState, navMounted, navGhosts>>
    /\ UNCHANGED <<typingVars, trackerVars, barVars>>
    /\ Observe(0)

\* The user scrolls the window to another offset; a smooth scroll under way
\* is abandoned.
WindowScroll(y) ==
    /\ y # scrollY
    /\ ScrollEvent(y)
    /\ scrollTarget' = <<>>
    /\ UNCHANGED <<page, mobileOpen, navMounted, navListening, navEffectPending,
                   lastNav, navError>>
    /\ UNCHANGED <<typingVars, trackerVars, barVars>>
    /\ Observe(0)

\* A smooth scroll reaches its destination.
ScrollArrive ==
    /\ scrollTarget # <<>>
    /\ IF scrollTarget[1] # scrollY
         THEN ScrollEvent(scrollTarget[1])
         ELSE UNCHANGED <<scrollY, scrolled, activeSection, scrollSeen,
                          scrollHandled>>
    /\ scrollTarget' = <<>>
    /\ UNCHANGED <<page, mobileOpen, navMounted, navListening, navEffectPending,
                   lastNav, navError>>
    /\ UNCHANGED <<typingVars, trackerVars, barVars>>
    /\ Observe(0)

\* document.getElementById(id)
ElementOf(id) == {i \in page.elements : NavIds[i] = id}

ScrollsIntoViewUnchecked(id) == TRUE

\* The ?. of document.getElementById(id)?.scrollIntoView(...): the call is
\* made only on an element.
ScrollsIntoView(id) == ElementOf(id) # {}

\* The call would be made on null.
Throws(id) == ScrollsIntoView(id) /\ ElementOf(id) = {}

\* document.getElementById(id)?.scrollIntoView({ behavior: "smooth" })
ScrollIntoView(id) ==
    /\ scrollTarget' =
         IF ScrollsIntoView(id) /\ ElementOf(id) # {}
           THEN <<page.offsetTop[CHOOSE i \in ElementOf(id) : TRUE]>>
           ELSE scrollTarget
    /\ navError' = (navError \/ Throws(id))
    /\ lastNav' = id

\* scrollTo(id): scroll to the section, then setMobileOpen(false).
ScrollTo(id) ==
    /\ navMounted
    /\ ScrollIntoView(id)
    /\ mobileOpen' = IF Throws(id) THEN mobileOpen ELSE FALSE
    /\ UNCHANGED <<page, scrollY, scrolled, activeSection, navMounted,
                   navListening, navEffectPending, scrollSeen, scrollHandled>>
    /\ UNCHANGED <<typingVars, trackerVars, barVars>>
    /\ Observe(0)

\* A link of the desktop bar or of the mobile menu: onClick scrollTo(link.id)
NavLinkClick(i) == ScrollTo(NavIds[i])

\* The logo: onClick scrollTo("home")
LogoClick == ScrollTo("home")

\* HeroSection's scroll-down control:
\* onClick document.getElementById("about")?.scrollIntoView(...)
HeroScrollDown ==
    /\ ScrollIntoView("about")
    /\ UNCHANGED <<page, scrollY, navState, navMounted, navListening,
                   navEffectPending, scrollSeen, scrollHandled>>
    /\ UNCHANGED <<typingVars, trackerVars, barVars>>
    /\ Observe(0)

\* The menu button: onClick setMobileOpen(!mobileOpen)
NavToggle ==
    /\ navMounted
    /\ mobileOpen' = ~mobileOpen
    /\ UNCHANGED <<windowVars, scrolled, activeSection, navMounted,
                   navListening, navEffectPending, navGhosts>>
    /\ UNCHANGED <<typingVars, trackerVars, barVars>>
    /\ Observe(0)

\* Unmount: the effect's cleanup removes the scroll listener.
NavUnmount ==
    /\ navMounted /\ ~navEffectPending
    /\ navMounted' = FALSE
    /\ navListening' = FALSE
    /\ UNCHANGED <<windowVars, navState, navEffectPending, navGhosts>>
    /\ UNCHANGED <<typingVars, trackerVars, barVars>>
    /\ Observe(0)

\* ---------------------------------------------------------- LanguageCircle
\* isVisible ? (value / 100) * circumference : circumference, as a percentage
\* of the circumference: the part of the ring that is drawn.
CirclePercent == IF isVisible["circle"] THEN circleValue ELSE 100

\* The same term as a length.
CircleFill == (CirclePercent * Circumference) \div 100

\* strokeDashoffset = circumference - (isVisible ? ... : circumference)
StrokeDashoffset == Circumference - CircleFill

\* ------------------------------------------------------------------ time
\* The timers that are pending.
PendingTimers == {t \in {timeout, barTimer} : t.kind # "none"}

\* The delay until the next timer is due.
NextDue ==
    CHOOSE d \in {t.remaining : t \in PendingTimers} :
        \A t \in PendingTimers : d <= t.remaining

Elapse(t, d) == IF t.kind = "none" THEN t ELSE [t EXCEPT !.remaining = @ - d]

\* Time passes until the next pending timer is due.  Due timers and pending
\* effects run first.
Tick ==
    /\ PendingTimers # {}
    /\ ~typingEffectPending
    /\ ~barEffectPending
    /\ NextDue > 0
    /\ timeout' = Elapse(timeout, NextDue)
    /\ barTimer' = Elapse(barTimer, NextDue)
    /\ UNCHANGED <<typingArgs, typingState, typingMounted, typingEffectPending,
                   liveTimers, barValue, width, barEffectPending, circleValue,
                   trackerVars>>
    /\ UNCHANGED navVars
    /\ Observe(NextDue)

\* ------------------------------------------------------------------ init
\* useTypingEffect after the first render: useState("") / (0) / (false), the
\* first effect not yet run.  `mounted` is whether the page holds the view.
TypingInit(lists, speeds, mounted) ==
    /\ phrases \in lists
    /\ \E sp \in speeds :
          /\ typingSpeed = sp[1]
          /\ deletingSpeed = sp[2]
          /\ pauseDuration = sp[3]
    /\ displayText = ""
    /\ phraseIndex = 0
    /\ isDeleting = FALSE
    /\ timeout = NoTimer
    /\ liveTimers = 0
    /\ typingMounted = mounted
    /\ typingEffectPending = mounted

\* Each tracker after the first render: useState(false), no observer yet;
\* the region is attached or not (as `attached` allows) and, when attached,
\* in view or not.  `mounted` is whether the page holds the components.
TrackerInit(attached, mounted) ==
    /\ refCurrent \in [Trackers -> attached]
    /\ intersecting \in [Trackers -> BOOLEAN]
    /\ \A t \in Trackers : intersecting[t] => refCurrent[t]
    /\ isVisible = [t \in Trackers |-> FALSE]
    /\ observing = [t \in Trackers |-> FALSE]
    /\ entries = [t \in Trackers |-> << >>]
    /\ lastReported = [t \in Trackers |-> "none"]
    /\ trkMounted = [t \in Trackers |-> mounted]
    /\ trkEffectPending = [t \in Trackers |-> mounted]
    /\ trkError = [t \in Trackers |-> FALSE]

\* AnimatedProgressBar after the first render: useState(0); LanguageCircle
\* holds no state of its own.
BarInit(targets, circleTargets) ==
    /\ barValue \in targets
    /\ circleValue \in circleTargets
    /\ width = 0
    /\ barTimer = NoTimer
    /\ barEffectPending = FALSE

\* Navbar as constructed in one of the documents, the window at one of the
\* start offsets: useState(false), useState(false), useState("home").
NavInit(layouts, offsets, starts, mounted) ==
    /\ page \in {[elements |-> l.elements, offsetTop |-> l.offsetTop,
                   offsets |-> offsets] : l \in layouts}
    /\ scrollY \in starts
    /\ scrollTarget = <<>>
    /\ scrolled = FALSE
    /\ mobileOpen = FALSE
    /\ activeSection = "home"
    /\ navMounted = mounted
    /\ navListening = FALSE
    /\ navEffectPending = mounted
    /\ scrollSeen = FALSE
    /\ scrollHandled = FALSE
    /\ lastNav = ""
    /\ navError = FALSE

ClockInit ==
    now = 0 /\ cycles = 0 /\ fullFor = 0 /\ sinceCycle = 0 /\ visibleFor = 0

\* ---------------------------------------------------------- specifications
TypingNext == TypingRunEffect \/ TypingTimerFire \/ TypingUnmount \/ Tick

TrackerNext ==
    \/ \E t \in Trackers :
          \/ TrackerRunEffect(t)
          \/ AttachRegion(t)
          \/ Scroll(t)
          \/ Frame(t)
          \/ ObserverCallback(t)
          \/ TrackerUnmount(t)
    \/ BarRunEffect
    \/ BarTimerFire
    \/ Tick

Next == TypingNext \/ TrackerNext

\* The typing engine alone, over every phrase list and timing drawn.  Timers
\* that are due fire, pending effects run, and time passes.
InitTyping ==
    /\ TypingInit(PhraseLists, SpeedTriples, TRUE)
    /\ TrackerInit({FALSE}, FALSE)
    /\ BarInit({85}, {90})
    /\ ClockInit
    /\ NavInit({InstanceLayout}, {0}, {0}, FALSE)

TypingFairness ==
    WF_vars(TypingRunEffect) /\ WF_vars(TypingTimerFire) /\ WF_vars(Tick)

TypingSpec == InitTyping /\ [][TypingNext]_vars /\ TypingFairness

\* The visibility trackers and the progress bar alone.
InitTracker ==
    /\ TypingInit({HeroPhrases}, {ScenarioSpeeds}, FALSE)
    /\ TrackerInit(BOOLEAN, TRUE)
    /\ BarInit(BarTargets, CircleTargets)
    /\ ClockInit
    /\ NavInit({InstanceLayout}, {0}, {0}, FALSE)

TrackerSpec == InitTracker /\ [][TrackerNext]_vars

\* The trackers and the progress bar with their timers firing and their
\* effects running.
IndicatorFairness ==
    WF_vars(BarRunEffect) /\ WF_vars(BarTimerFire) /\ WF_vars(Tick)

IndicatorSpec == InitTracker /\ [][TrackerNext]_vars /\ IndicatorFairness

\* The indicators given any number as their value prop, in [0,100] or not.
AnyTargets == {-10, 50, 150}

InitAnyTarget ==
    /\ TypingInit({HeroPhrases}, {ScenarioSpeeds}, FALSE)
    /\ TrackerInit(BOOLEAN, TRUE)
    /\ BarInit(AnyTargets, AnyTargets)
    /\ ClockInit
    /\ NavInit({InstanceLayout}, {0}, {0}, FALSE)

AnyTargetSpec == InitAnyTarget /\ [][TrackerNext]_vars

NavNext ==
    \/ NavRunEffect
    \/ \E y \in page.offsets : WindowScroll(y)
    \/ ScrollArrive
    \/ \E i \in SectionIndex : NavLinkClick(i)
    \/ LogoClick
    \/ HeroScrollDown
    \/ NavToggle
    \/ NavUnmount

\* The Navbar alone, in every document and from every start offset.
InitNav ==
    /\ TypingInit({HeroPhrases}, {ScenarioSpeeds}, FALSE)
    /\ TrackerInit({FALSE}, FALSE)
    /\ BarInit({85}, {90})
    /\ ClockInit
    /\ NavInit(Layouts, ScrollOffsets, ScrollOffsets, TRUE)

NavSpec == InitNav /\ [][NavNext]_vars

\* The Navbar in documents where sections have no element, and trackers
\* whose regions never appear.
InitAbsent ==
    /\ TypingInit({HeroPhrases}, {ScenarioSpeeds}, FALSE)
    /\ TrackerInit({FALSE}, TRUE)
    /\ BarInit({85}, {90})
    /\ ClockInit
    /\ NavInit({SparseLayout, InstanceLayout}, {0, 850}, {0}, TRUE)

AbsentNext ==
    \/ NavNext
    \/ \E t \in Trackers : TrackerRunEffect(t) \/ TrackerUnmount(t)

AbsentSpec == InitAbsent /\ [][AbsentNext]_vars

\* The trackers and the Navbar from mount to teardown, with the
\* notifications and scroll events the host delivers before and after.
InitRelease ==
    /\ TypingInit({HeroPhrases}, {ScenarioSpeeds}, FALSE)
    /\ TrackerInit(BOOLEAN, TRUE)
    /\ BarInit({85}, {90})
    /\ ClockInit
    /\ NavInit({InstanceLayout}, {0, 850}, {0}, TRUE)

ReleaseNext ==
    \/ TrackerNext
    \/ NavRunEffect
    \/ \E y \in page.offsets : WindowScroll(y)
    \/ NavUnmount

ReleaseSpec == InitRelease /\ [][ReleaseNext]_vars

\* App: the Navbar, the hero's typing engine, a progress bar and a language
\* ring mounted on one page, the events of each delivered in any order.
InitPage ==
    /\ TypingInit({<<"A">>}, {ScenarioSpeeds}, TRUE)
    /\ TrackerInit({TRUE}, TRUE)
    /\ BarInit({85}, {90})
    /\ ClockInit
    /\ NavInit({InstanceLayout}, {0, 850}, {0}, TRUE)

PageNext ==
    \/ TypingRunEffect
    \/ TypingTimerFire
    \/ \E t \in Trackers :
          \/ TrackerRunEffect(t)
          \/ Scroll(t)
          \/ Frame(t)
          \/ ObserverCallback(t)
    \/ BarRunEffect
    \/ BarTimerFire
    \/ Tick
    \/ NavRunEffect
    \/ \E y \in page.offsets : WindowScroll(y)

PageSpec == InitPage /\ [][PageNext]_vars

\* All components on one page, interleaved.
Init ==
    /\ TypingInit({<<"A", "BB">>}, {ScenarioSpeeds}, TRUE)
    /\ TrackerInit(BOOLEAN, TRUE)
    /\ BarInit({85}, {90})
    /\ ClockInit
    /\ NavInit({InstanceLayout}, {0}, {0}, FALSE)

Spec == Init /\ [][Next]_vars


\* ------------------------------------------------------------------ claims
\* No timer is due and no effect is pending: everything that happens at the
\* current instant has happened.
Quiescent ==
    /\ ~typingEffectPending
    /\ ~(timeout.kind # "none" /\ timeout.remaining = 0)

LongestList == Max(MaxPhrases, Len(HeroPhrases))

\* C1: in every reachable state of the typing engine the display string is a
\* prefix of the active phrase phrases[phraseIndex], of length 0..len(phrase),
\* and the index names an element of the (non-empty) phrase list.
C1_DisplayIsPrefix ==
    /\ Len(phrases) >= 1
    /\ phraseIndex \in 0..(Len(phrases) - 1)
    /\ IsPrefix(displayText, CurrentPhrase)
    /\ Len(displayText) \in 0..Len(CurrentPhrase)

\* C1 witness: the second phrase of a list is half deleted.
C1_Witness ==
    /\ isDeleting
    /\ phraseIndex = 1
    /\ Len(displayText) = 1
    /\ Len(CurrentPhrase) = 2

\* C2: while its view stays mounted the typing engine never stalls: every
\* phrase of the list is fully displayed infinitely often, the display is
\* empty infinitely often, and the engine is in Typing and in Deleting
\* infinitely often; the index moves through the list in cyclic order.
C2_NeverStalls ==
    /\ [][phraseIndex' # phraseIndex
            => phraseIndex' = (phraseIndex + 1) % Len(phrases)]_vars
    /\ ([]typingMounted) =>
          /\ \A i \in 1..LongestList :
                []<>(i > Len(phrases)
                     \/ (phraseIndex = i - 1 /\ displayText = phrases[i] /\ ~isDeleting))
          /\ []<>(displayText = "" /\ ~isDeleting)
          /\ []<>isDeleting

\* C2 witness: a one-phrase list is on its second round, fully typed again.
C2_Witness ==
    /\ typingMounted
    /\ Len(phrases) = 1
    /\ cycles >= 1
    /\ displayText = CurrentPhrase
    /\ displayText # ""

\* C3: after N returns from Deleting to Typing the index is N mod
\* len(phrases); the index changes only in a step taken with the display
\* empty while deleting, and then by +1 modulo the list length.
C3_IndexIsCyclesModLen ==
    /\ [](cycles < MaxCycles => phraseIndex = cycles % Len(phrases))
    /\ [][phraseIndex' # phraseIndex
            => /\ isDeleting
               /\ displayText = ""
               /\ phraseIndex' = (phraseIndex + 1) % Len(phrases)]_vars
    /\ [][cycles' # cycles => displayText = "" /\ displayText' = ""]_vars

\* C3 witness: a two-phrase list has wrapped around to its first phrase.
C3_Witness ==
    /\ Len(phrases) = 2
    /\ cycles = 2
    /\ phraseIndex = 0
    /\ displayText # ""

\* C4: every change of the display string changes its length by exactly one:
\* +1 while not deleting, -1 while deleting.
C4_OneCharacterPerStep ==
    [][displayText' # displayText
         => Len(displayText') = Len(displayText) + (IF isDeleting THEN -1 ELSE 1)]_vars

\* C4 witness: a two-character phrase has lost both characters one by one.
C4_Witness ==
    /\ isDeleting
    /\ Len(CurrentPhrase) = 2
    /\ displayText = ""

\* C5: the deleting flag turns true only in a state whose display is the
\* full current phrase, and turns false only in a state whose display is
\* empty.
C5_NoSkippedState ==
    [][/\ (~isDeleting /\ isDeleting') => displayText = CurrentPhrase
       /\ (isDeleting /\ ~isDeleting') => displayText = ""]_vars

\* C5 witness: the engine is back in Typing on the next phrase after a
\* complete Typing -> Deleting -> Typing round.
C5_Witness ==
    /\ ~isDeleting
    /\ cycles = 1
    /\ phraseIndex = 1
    /\ Len(displayText) = 1

\* C6: once the display is the full current phrase (not deleting) it stays
\* so for pauseDuration time units: the pause timer holds exactly the rest of
\* the pause, the state is left only after pauseDuration, and only by the
\* deleting flag turning true with the display untouched.
C6_PauseBeforeDeleting ==
    /\ [](typingMounted /\ Full
            => /\ fullFor <= pauseDuration
               /\ ~typingEffectPending
                    => /\ timeout.kind = "pause"
                       /\ timeout.remaining = pauseDuration - fullFor)
    /\ [][typingMounted /\ Full /\ ~Full'
            => /\ fullFor = pauseDuration
               /\ isDeleting'
               /\ displayText' = displayText
               /\ phraseIndex' = phraseIndex]_vars

\* C6 witness: the pause of a non-empty phrase has fully elapsed and the
\* phrase is still displayed, not deleting.
C6_Witness ==
    /\ typingMounted
    /\ Full
    /\ displayText # ""
    /\ fullFor = pauseDuration

\* The instants of the cycle of phrase p, measured from its start.
TypedAt(p) == Len(p) * typingSpeed
PausedUntil(p) == TypedAt(p) + pauseDuration
DeletedAt(p) == PausedUntil(p) + Len(p) * deletingSpeed

\* The spec's scenario: phrases ["A", "BB"], typingSpeed 10, deletingSpeed
\* 5, pause 100.
InScenario ==
    /\ phrases = <<"A", "BB">>
    /\ <<typingSpeed, deletingSpeed, pauseDuration>> = ScenarioSpeeds

\* C7: the display is a function of the time e since the phrase p was
\* started: e div typingSpeed characters until p is typed at
\* len(p)*typingSpeed, p during the pause, then one character less every
\* deletingSpeed; the cycle ends (flag and index change) exactly at
\* len(p)*typingSpeed + pauseDuration + len(p)*deletingSpeed.  In the
\* scenario: "A" from t=10 to t=110, "" with index 1 at t=115, "B" at t=125,
\* "BB" at t=135.
C7_Timeline ==
    /\ [](typingMounted /\ Quiescent =>
            LET p == CurrentPhrase
                e == sinceCycle
            IN /\ e < DeletedAt(p)
               /\ e < TypedAt(p)
                    => ~isDeleting /\ displayText = Slice(p, e \div typingSpeed)
               /\ (TypedAt(p) <= e /\ e < PausedUntil(p))
                    => ~isDeleting /\ displayText = p
               /\ PausedUntil(p) <= e
                    => /\ isDeleting
                       /\ displayText =
                            Slice(p, Len(p) - ((e - PausedUntil(p)) \div deletingSpeed)))
    /\ [][typingMounted /\ isDeleting /\ ~isDeleting'
            => sinceCycle = DeletedAt(CurrentPhrase)]_vars
    /\ [](typingMounted /\ Quiescent /\ InScenario /\ now < MaxTime =>
            /\ now < 10 => displayText = "" /\ phraseIndex = 0
            /\ (10 <= now /\ now < 115) => displayText = "A" /\ phraseIndex = 0
            /\ (115 <= now /\ now < 125) => displayText = "" /\ phraseIndex = 1
            /\ (125 <= now /\ now < 135) => displayText = "B" /\ phraseIndex = 1
            /\ 135 <= now => displayText = "BB" /\ phraseIndex = 1)

\* C7 witness: the scenario at t=135.
C7_Witness ==
    /\ typingMounted
    /\ Quiescent
    /\ InScenario
    /\ now = 135
    /\ displayText = "BB"

\* C8: a torn-down view has no pending timer, and nothing changes the
\* display, index and deleting flag of a torn-down typing view or the width
\* of a torn-down progress bar; the teardown itself changes none of them.
C8_TeardownCancelsTimers ==
    /\ [](~typingMounted => timeout.kind = "none")
    /\ [](~trkMounted["bar"] => barTimer.kind = "none")
    /\ [][~typingMounted' => UNCHANGED typingState]_vars
    /\ [][~trkMounted'["bar"] => UNCHANGED width]_vars

\* C8 witness: the typing view was torn down in the middle of typing a
\* phrase and the progress bar after it became visible and before its width
\* was set, each with its timer pending.
C8_Witness ==
    /\ ~typingMounted
    /\ ~isDeleting
    /\ displayText # ""
    /\ displayText # CurrentPhrase
    /\ ~trkMounted["bar"]
    /\ isVisible["bar"]
    /\ width = 0

\* C9: every tracker's flag starts false, turns true only in a callback
\* whose first entry reports the region intersecting, and never turns false
\* again.
C9_VisibleOnceAndForAll ==
    /\ \A t \in Trackers : ~isVisible[t]
    /\ [][\A t \in Trackers :
            /\ isVisible[t] => isVisible'[t]
            /\ (~isVisible[t] /\ isVisible'[t])
                 => entries[t] # << >> /\ Head(entries[t])]_vars

\* C9 witness: a tracker's flag is true and its region has been scrolled out
\* of view again.
C9_Witness ==
    \E t \in Trackers : isVisible[t] /\ refCurrent[t] /\ ~intersecting[t] /\ trkMounted[t]

\* C10: a tracker started without a region observes nothing while there is
\* none, and observes the region once it is attached (until its flag is
\* set).
C10_ObservesOnceAttached ==
    \A t \in Trackers :
        /\ ~refCurrent[t] => ~observing[t] /\ entries[t] = << >>
        /\ (trkMounted[t] /\ ~trkEffectPending[t] /\ refCurrent[t] /\ ~isVisible[t])
             => observing[t]

\* The progress bar part of C11: while the mounted bar has been visible for
\* less than ProgressDelay its width is 0, and the width changes only once
\* ProgressDelay has elapsed, to the target.
BarWaitsForDelay ==
    /\ [](trkMounted["bar"] /\ isVisible["bar"] /\ visibleFor < ProgressDelay
            => width = 0)
    /\ [][width' # width => visibleFor = ProgressDelay /\ width' = barValue]_vars

\* C11: every progress indicator's current value stays 0 from the moment its
\* visibility signal turns true until ProgressDelay has elapsed, and only
\* then becomes the target: the bar as in BarWaitsForDelay, and the ring
\* still shows 0 in the state in which its signal has just turned true.
C11_ValueWaitsForDelay ==
    /\ BarWaitsForDelay
    /\ [][(~isVisible["circle"] /\ isVisible'["circle"]) => CirclePercent' = 0]_vars

\* The current value C12 ascribes to the ring: 0 until visible, then the
\* target.
ClaimedCircleValue == IF isVisible["circle"] THEN circleValue ELSE 0

\* C12: the ring's stroke offset is circumference - (currentValue / 100) *
\* circumference with currentValue 0 while the ring is not visible (offset =
\* circumference, an empty ring) and the target once it is.
C12_StrokeOffset ==
    /\ StrokeDashoffset = Circumference - (ClaimedCircleValue * Circumference) \div 100
    /\ ~isVisible["circle"] => StrokeDashoffset = Circumference

\* The progress bar part of C13: the width is 0 or the target, it changes
\* only from 0 to the target, and a visible bar that is not torn down ends
\* with its width at the target.
BarReachesTarget ==
    /\ [](width \in {0, barValue})
    /\ [][width' # width => width = 0 /\ width' = barValue]_vars
    /\ isVisible["bar"] ~> (width = barValue \/ ~trkMounted["bar"])

\* C13: once its signal is true, an indicator that is not torn down
\* eventually shows exactly its target; its value changes only once, from 0
\* to the target.
C13_ReachesTargetOnce ==
    /\ BarReachesTarget
    /\ [](CirclePercent \in {0, circleValue})
    /\ [][CirclePercent' # CirclePercent
            => CirclePercent = 0 /\ CirclePercent' = circleValue]_vars
    /\ isVisible["circle"] ~> (CirclePercent = circleValue)

\* C14: whatever target an indicator is given, the value it displays is
\* never below 0 or above 100.
C14_ValueInRange ==
    /\ 0 <= width /\ width <= 100
    /\ isVisible["circle"] => (0 <= CirclePercent /\ CirclePercent <= 100)

\* The sections whose element exists and whose top is at most y + Lookahead.
Qualifying(y) == {i \in page.elements : page.offsetTop[i] <= y + Lookahead}

\* The member of a set of list positions that comes latest in the list.
Latest(Q) == CHOOSE i \in Q : \A j \in Q : j <= i

\* The Navbar listens and has handled a scroll event.
AfterScrollEvent == navListening /\ scrollHandled

\* The document of the instance: tops [0,800,1600,2400] for home, about,
\* skills, education.
InInstance ==
    /\ page.elements = 1..4
    /\ \A i \in 1..4 : page.offsetTop[i] = (i - 1) * 800

\* C15: after every scroll event, if some section has top <= scroll offset +
\* 80, the active section is the latest of those sections in list order; in
\* the instance document at offset 850 it is "about".
C15_ActiveIsLatestPassed ==
    /\ (AfterScrollEvent /\ Qualifying(scrollY) # {})
         => activeSection = NavIds[Latest(Qualifying(scrollY))]
    /\ (AfterScrollEvent /\ InInstance /\ scrollY = 850)
         => activeSection = "about"

C15_Witness ==
    AfterScrollEvent /\ InInstance /\ scrollY = 850 /\ activeSection = "about"

\* C16: on mount, before any scroll event, the Navbar has computed the
\* active section and the scrolled flag from the current scroll offset.
C16_ComputedOnMount ==
    (navListening /\ ~scrollSeen)
      => /\ scrolled = (scrollY > ScrolledThreshold)
         /\ Qualifying(scrollY) # {}
              => activeSection = NavIds[Latest(Qualifying(scrollY))]

\* A step of a control that scrolls the page to a section.
NavigationAction ==
    \/ \E i \in SectionIndex : NavLinkClick(i)
    \/ LogoClick
    \/ HeroScrollDown

\* C17: with the mobile menu open, every navigation action (a nav link, the
\* logo, the hero's scroll-down control) leaves the menu closed.
C17_NavigationClosesMenu ==
    [][(mobileOpen /\ NavigationAction) => ~mobileOpen']_vars

\* C18: after every scroll event scrolled = (scroll offset > 50), strictly:
\* false at exactly 50, and false again once scrolled back to 50 or less.
C18_ScrolledIsStrict ==
    /\ [](AfterScrollEvent => (scrolled <=> scrollY > 50))
    /\ [](AfterScrollEvent /\ scrollY = 50 => ~scrolled)
    /\ [][(navListening /\ scrolled /\ scrollY' # scrollY /\ scrollY' <= 50)
            => ~scrolled']_vars

C18_Witness == AfterScrollEvent /\ scrollY = 50 /\ ~scrolled /\ lastNav # ""

\* C19: absent DOM targets are no-ops: no handler ever throws; a navigation
\* to a section without an element closes the menu and scrolls nowhere; the
\* scroll handler never makes a section without an element active; a tracker
\* whose region has not appeared is not visible.
C19_AbsentTargetsAreNoOps ==
    /\ [](~navError /\ \A t \in Trackers : ~trkError[t])
    /\ [][\A i \in SectionIndex :
            (NavLinkClick(i) /\ ElementOf(NavIds[i]) = {})
              => (~mobileOpen' /\ scrollTarget' = scrollTarget)]_vars
    /\ [][activeSection' # activeSection => ElementOf(activeSection') # {}]_vars
    /\ [](\A t \in Trackers : ~refCurrent[t] => ~isVisible[t])

C19_Witness ==
    /\ lastNav # "" /\ ElementOf(lastNav) = {} /\ ~mobileOpen
    /\ AfterScrollEvent /\ activeSection # "home"
    /\ \E t \in Trackers :
         trkMounted[t] /\ ~trkEffectPending[t] /\ ~refCurrent[t] /\ ~isVisible[t]

\* The state each component instance owns (time left on a timer is the
\* clock's, not the component's).
InstanceState ==
    [typing |-> <<typingState, [timeout EXCEPT !.remaining = 0],
                  typingMounted, typingEffectPending>>,
     bar |-> <<refCurrent["bar"], isVisible["bar"], observing["bar"],
               entries["bar"], trkMounted["bar"], trkEffectPending["bar"],
               width, [barTimer EXCEPT !.remaining = 0], barEffectPending>>,
     circle |-> <<refCurrent["circle"], isVisible["circle"],
                  observing["circle"], entries["circle"], trkMounted["circle"],
                  trkEffectPending["circle"]>>,
     navbar |-> <<navState, navMounted, navListening, navEffectPending>>]

\* C20: components share no mutable state: every event changes the state of
\* at most one component instance and leaves every other instance's state
\* as it was.
C20_NoSharedState ==
    [][Cardinality({k \in DOMAIN InstanceState :
                      InstanceState'[k] # InstanceState[k]}) <= 1]_vars

C20_Witness ==
    /\ isVisible["bar"] /\ ~isVisible["circle"] /\ intersecting["circle"]
    /\ refCurrent["circle"] /\ width = barValue
    /\ displayText # "" /\ cycles > 0 /\ AfterScrollEvent /\ scrolled

\* C21 as stated: every transition of the typing engine schedules exactly one
\* timer, i.e. every run of the engine's effect leaves a timer pending.
C21_EveryTransitionSchedules ==
    [][TypingRunEffect => (timeout' # NoTimer /\ liveTimers' = 1)]_vars

\* C21 as amended: a run of the effect schedules exactly one timer, except
\* the run that finds the display empty while deleting: that one schedules
\* none, and advances to the next phrase at once, the effect pending again.
C21_OneTimerUnlessEmpty ==
    [][TypingRunEffect =>
         IF isDeleting /\ displayText = ""
         THEN /\ timeout' = NoTimer /\ liveTimers' = 0
              /\ ~isDeleting' /\ displayText' = ""
              /\ typingEffectPending'
         ELSE /\ timeout' # NoTimer /\ liveTimers' = 1
              /\ typingState' = typingState
              /\ ~typingEffectPending']_vars

C21_Witness ==
    /\ typingMounted /\ typingEffectPending /\ cycles > 0
    /\ ~isDeleting /\ displayText = "" /\ timeout = NoTimer
    /\ Len(phrases) > 1 /\ phraseIndex > 0

\* C23: a typing engine has at most one pending timer at every instant; when
\* its state (display, deleting flag, phrase index) changes, the timer of the
\* previous state is gone before a new one is set, so the pending step timer
\* is always the one set for the current state and no step is applied twice.
C23_AtMostOneTimer ==
    /\ [](liveTimers <= 1)
    /\ [](liveTimers = IF timeout = NoTimer THEN 0 ELSE 1)
    /\ [](typingEffectPending => liveTimers = 0)
    /\ []((typingMounted /\ timeout.kind = "step")
            => /\ timeout.del = isDeleting
               /\ timeout.phrase = CurrentPhrase
               /\ timeout.len = Len(displayText))
    /\ [][typingState' # typingState => liveTimers' = 0]_vars
    /\ [][TypingTimerFire => liveTimers' = 0]_vars

C23_Witness ==
    /\ typingMounted /\ liveTimers = 1 /\ cycles > 0
    /\ isDeleting /\ timeout.kind = "step" /\ timeout.remaining = 0
    /\ Len(displayText) > 1

\* C22: a tracker's observer is disconnected once its signal has fired and
\* once its view is torn down, and the Navbar's scroll listener is removed on
\* teardown; after the release no visibility notification changes the
\* tracker's signal and no scroll event changes the Navbar's state.
C22_ObserversReleased ==
    /\ [](\A t \in Trackers :
            (isVisible[t] \/ ~trkMounted[t])
              => (~observing[t] /\ entries[t] = << >>))
    /\ [](~navMounted => ~navListening)
    /\ [][\A t \in Trackers : ~observing[t] => isVisible'[t] = isVisible[t]]_vars
    /\ [][~navListening
            => (scrolled' = scrolled /\ activeSection' = activeSection)]_vars

C22_Witness ==
    /\ isVisible["bar"] /\ ~intersecting["bar"] /\ trkMounted["bar"]
    /\ ~trkMounted["circle"] /\ ~isVisible["circle"] /\ intersecting["circle"]
    /\ ~navMounted /\ scrollHandled /\ scrollY = 850 /\ ~scrolled

\* The ids of NAV_LINKS.
ListedIds == {NavIds[i] : i \in SectionIndex}

\* C24: the active section changes only in a handled scroll event that finds
\* a section with top <= scroll offset + 80; a scroll event that finds none
\* leaves it as it was, and neither a navigation click nor a menu toggle
\* changes it; it is always one of the listed ids ("home" at first).
C24_ActiveChangesOnlyOnScroll ==
    /\ [][activeSection' # activeSection
            => /\ navListening
               /\ scrollY' # scrollY
               /\ Qualifying(scrollY') # {}
               /\ activeSection' = NavIds[Latest(Qualifying(scrollY'))]]_vars
    /\ [][(scrollY' # scrollY /\ Qualifying(scrollY') = {})
            => activeSection' = activeSection]_vars
    /\ [][(NavigationAction \/ NavToggle) => activeSection' = activeSection]_vars
    /\ [](activeSection \in ListedIds)

C24_Witness ==
    /\ AfterScrollEvent /\ Qualifying(scrollY) = {} /\ activeSection = "about"
    /\ lastNav # "" /\ mobileOpen

====
